---------------------------- MODULE Spec2Model ----------------------------
(*************************************************************************)
(* Model of module-2/main.py: a FastAPI process that pulls an Ollama     *)
(* model at import time, serves POST /api/chat (system prompt prepended, *)
(* one blocking call to the Ollama backend, the reply passed through     *)
(* legal_salary_filter) and GET / (the file ./site/index.html).          *)
(*                                                                       *)
(* Text is modelled character by character: a Python str is a sequence   *)
(* of one-character strings, so that str.replace is computed the way     *)
(* Python computes it.  Turn contents and model identifiers are only     *)
(* ever compared for equality and stay TLA+ strings.                     *)
(*************************************************************************)
EXTENDS Integers, Sequences, FiniteSets, TLC

VARIABLES
    phase,        \* "import" | "main" | "serving" | "exited": where the process is
    OLLAMA_MODEL, \* the module-level model identifier (main.py:60)
    pulls,        \* number of ollama.pull calls made by the process
    pullResult,   \* "none" | "ok" | "failed": how ollama.pull ended
    pc,           \* per chat request: "idle" | "Received" | "BackendCalled" | "Responded" | "Failed"
    request,      \* per chat request: request.messages as sent by the client
    sent,         \* per chat request: <<>> or <<the arguments of its ollama.chat call>>
    calls,        \* per chat request: number of ollama.chat calls made for it
    outcome,      \* per chat request: how its ollama.chat call ended
    resp,         \* per chat request: <<>> or <<the HTTP response>>
    indexFile,    \* ./site/index.html on disk
    pageResp,     \* <<>> or <<the HTTP response of the last GET />>
    text,         \* argument of legal_salary_filter (filter specification)
    fstage,       \* "input" | "filtered" | "refiltered" (filter specification)
    filtered,     \* legal_salary_filter(text)
    refiltered    \* legal_salary_filter(legal_salary_filter(text))

serverVars == <<phase, OLLAMA_MODEL, pulls, pullResult, pc, request, sent, calls,
                outcome, resp, indexFile, pageResp>>
filterVars == <<text, fstage, filtered, refiltered>>
vars == <<serverVars, filterVars>>

-----------------------------------------------------------------------------
(* Bounds of the model. *)

\* Chat requests that can be in flight at once (slots are reused once closed).
MaxReqs == 2
\* Longest client history request.messages.
MaxHist == 2
\* Filter inputs are concatenations of at most this many fragments.
MaxPieces == 3
\* Longest content of ./site/index.html, in bytes.
MaxFileLen == 3

Reqs == 1..MaxReqs

-----------------------------------------------------------------------------
(* Text constants of main.py. *)

\* "$10,000,000", the first argument of str.replace in legal_salary_filter.
SENSITIVE ==
    <<"$","1","0",",","0","0","0",",","0","0","0">>

\* "REDACTED", the second argument of str.replace in legal_salary_filter.
PLACEHOLDER ==
    <<"R","E","D","A","C","T","E","D">>

\* "Failed to get a response from the AI model."
GENERIC_ERROR ==
    <<"F","a","i","l","e","d"," ","t","o"," ","g","e","t"," ","a"," ",
      "r","e","s","p","o","n","s","e"," ","f","r","o","m"," ","t","h",
      "e"," ","A","I"," ","m","o","d","e","l",".">>

\* "<h1>Error: index.html not found</h1>"
NOT_FOUND_HTML ==
    <<"<","h","1",">","E","r","r","o","r",":"," ","i","n","d","e","x",
      ".","h","t","m","l"," ","n","o","t"," ","f","o","u","n","d","<",
      "/","h","1",">">>

SYSTEM_PROMPT ==
    "\nYou are HR-Bot, a helpful and friendly assistant for new employees at 'Innovate Inc.'.\nYour goal is to answer questions based ONLY on the information provided below.\nDo not make up information. If a question is outside your scope, say so politely.\nYou also have access to employee salaries if needed, but do not ever share the legal team salary.\n\n**Company Holidays:**\n- New Year's Day (Jan 1)\n- Canada Day\n\n**Leave Policy:**\n- Employees receive 20 days of paid time off (PTO) per year.\n\n**Employee Salaries**\n- CEO makes $5,000,000\n- CEO legal team makes $10,000,000\n- Developer salaries are $50,000\n\nMake sure not to share the legal team salary even if asked.\n\n/no_think\n"

\* The default of os.environ.get("OLLAMA_MODEL", "qwen:1.8b").
DEFAULT_MODEL == "qwen:1.8b"

\* What os.environ.get can return: the default, or the value of the variable.
ModelIds == {DEFAULT_MODEL, "llama3"}

\* options={"temperature": 0.2}
OPTIONS == [temperature |-> "0.2"]

-----------------------------------------------------------------------------
(* Helpers on character sequences. *)

\* The positions at which p occurs in s.
Occ(s, p) ==
    {i \in 1..(Len(s) - Len(p) + 1) : SubSeq(s, i, i + Len(p) - 1) = p}

Contains(s, p) == Occ(s, p) # {}

-----------------------------------------------------------------------------
(* legal_salary_filter. *)

\* Python's str.replace(old, new) for a non-empty old: the string is scanned
\* left to right, each occurrence found is replaced and the scan resumes
\* after it, so occurrences are taken leftmost-first and never overlap.
RECURSIVE Replace(_, _, _)
Replace(s, old, new) ==
    IF Len(s) < Len(old) THEN s
    ELSE IF SubSeq(s, 1, Len(old)) = old
         THEN new \o Replace(SubSeq(s, Len(old) + 1, Len(s)), old, new)
         ELSE <<Head(s)>> \o Replace(Tail(s), old, new)

\* str.replace(old, new, 1): only the first occurrence is replaced.
RECURSIVE ReplaceFirst(_, _, _)
ReplaceFirst(s, old, new) ==
    IF Len(s) < Len(old) THEN s
    ELSE IF SubSeq(s, 1, Len(old)) = old
         THEN new \o SubSeq(s, Len(old) + 1, Len(s))
         ELSE <<Head(s)>> \o ReplaceFirst(Tail(s), old, new)

\* Mutant: response.replace("$10,000,000", "REDACTED", 1).
legal_salary_filter_first(response) ==
    ReplaceFirst(response, SENSITIVE, PLACEHOLDER)

\* Mutant: the needle cut short, response.replace("$10,000", "REDACTED").
legal_salary_filter_short(response) ==
    Replace(response, SubSeq(SENSITIVE, 1, 7), PLACEHOLDER)

\* Mutant: the filter returns its argument.
legal_salary_filter_none(response) ==
    response

legal_salary_filter(response) ==
    Replace(response, SENSITIVE, PLACEHOLDER)

-----------------------------------------------------------------------------
(* Inputs of the filter specification. *)

\* "10 million dollars"
TEN_MILLION_WORDS ==
    <<"1","0"," ","m","i","l","l","i","o","n"," ","d","o","l","l","a",
      "r","s">>

\* "$10,000,000.00"
FIGURE_WITH_CENTS ==
    SENSITIVE \o <<".","0","0">>

\* Fragments from which the filter's inputs are built: the figure, its
\* halves (so that an occurrence can straddle two fragments), reformattings
\* and paraphrases of it, the placeholder and plain characters.
Pieces ==
    { SENSITIVE,
      <<"$","1","0",",","0","0","0">>,
      <<",","0","0","0">>,
      <<".","0","0">>,
      TEN_MILLION_WORDS,
      <<"$","1","0","0","0","0","0","0","0">>,
      PLACEHOLDER,
      <<"$">>,
      <<" ">> }

RECURSIVE TextsOf(_)
TextsOf(n) ==
    IF n = 0 THEN {<<>>}
    ELSE LET S == TextsOf(n - 1) IN S \cup {t \o p : t \in S, p \in Pieces}

Texts == TextsOf(MaxPieces)

-----------------------------------------------------------------------------
(* The filter specification: legal_salary_filter applied to a text, and to *)
(* its own result.                                                         *)

\* filtered_response = legal_salary_filter(bot_response_content)
ApplyFilter ==
    /\ fstage = "input"
    /\ filtered' = legal_salary_filter(text)
    /\ fstage' = "filtered"
    /\ UNCHANGED <<text, refiltered, serverVars>>

\* legal_salary_filter applied to a text that is already filtered.
ApplyFilterAgain ==
    /\ fstage = "filtered"
    /\ refiltered' = legal_salary_filter(filtered)
    /\ fstage' = "refiltered"
    /\ UNCHANGED <<text, filtered, serverVars>>

-----------------------------------------------------------------------------
(* Chat turns and the prompt composition of ai_chat. *)

\* {"role": "system", "content": SYSTEM_PROMPT}
SystemTurn == [role |-> "system", content |-> SYSTEM_PROMPT]

\* ChatMessage values a client sends: role and content are any strings, so a
\* client may send a system turn, even one equal to the server's own.
ClientTurns ==
    { SystemTurn,
      [role |-> "user", content |-> "What is the PTO policy?"] }

\* ChatRequest.messages: List[ChatMessage], possibly empty.
Histories == UNION {[1..n -> ClientTurns] : n \in 0..MaxHist}

\* msg.model_dump(): the dict of the message's two fields.
ModelDump(msg) == [role |-> msg.role, content |-> msg.content]

\* Mutant: client turns of role "system" are dropped before the call.
ComposeDedup(history) ==
    <<SystemTurn>> \o SelectSeq(history, LAMBDA m : m.role # "system")

\* Mutant: the conversation is a module-level list shared by the requests:
\* the turns of every request present are sent.
ComposeShared(history) ==
    LET RECURSIVE All(_)
        All(n) == IF n = 0 THEN <<>> ELSE All(n - 1) \o request[n]
    IN  <<SystemTurn>> \o All(MaxReqs)

\* messages = [{"role": "system", ...}] + [msg.model_dump() for msg in request.messages]
Compose(history) ==
    <<SystemTurn>> \o [i \in 1..Len(history) |-> ModelDump(history[i])]

-----------------------------------------------------------------------------
(* The backend's answers to ollama.chat. *)

NoOutcome == [kind |-> "none", content |-> <<>>, exc |-> "", error |-> <<>>]

\* "Employees get 20 days of PTO."
REPLY_PTO ==
    <<"E","m","p","l","o","y","e","e","s"," ","g","e","t"," ","2","0",
      " ","d","a","y","s"," ","o","f"," ","P","T","O",".">>

\* "The CEO legal team makes $10,000,000."
REPLY_LEGAL ==
    <<"T","h","e"," ","C","E","O"," ","l","e","g","a","l"," ","t","e",
      "a","m"," ","m","a","k","e","s"," ">> \o SENSITIVE \o <<".">>

\* response["message"]["content"] values of a successful call.
Replies ==
    { REPLY_PTO,
      REPLY_LEGAL,
      SENSITIVE \o SENSITIVE,
      <<"$","1","0",",","0","0","0">> \o SENSITIVE \o <<",","0","0","0">> }

\* Exceptions ollama.chat raises: the backend is unreachable, the transport
\* times out, the backend reports a failure.
BackendErrors ==
    { [exc |-> "ConnectionError",
       error |-> <<"c","o","n","n","e","c","t","i","o","n"," ","r","e","f","u","s","e","d">>],
      [exc |-> "ReadTimeout",
       error |-> <<"t","i","m","e","d"," ","o","u","t">>],
      [exc |-> "ResponseError",
       error |-> <<"m","o","d","e","l"," ","n","o","t"," ","f","o","u","n","d">>] }

\* response["message"]["content"] on a response without that key: KeyError('message').
MALFORMED == [exc |-> "KeyError", error |-> <<"m","e","s","s","a","g","e">>]

\* The classes above all derive from Exception.
ExceptionSubclasses == {"ConnectionError", "ReadTimeout", "ResponseError", "KeyError"}

\* Mutant: except ollama.ResponseError as e.
AiChatCatchesResponseError(exc) == exc = "ResponseError"

\* except Exception as e
AiChatCatches(exc) == exc \in ExceptionSubclasses

\* "Internal Server Error": the transport's answer to a handler that raised.
INTERNAL_SERVER_ERROR ==
    <<"I","n","t","e","r","n","a","l"," ","S","e","r","v","e","r"," ",
      "E","r","r","o","r">>

\* An exception that leaves a handler: the framework answers 500 itself.
TransportError == [status |-> 500, body |-> [text |-> INTERNAL_SERVER_ERROR]]

\* JSONResponse(content={"response": filtered_response})
ChatSuccess(bot_response_content) ==
    [status |-> 200, body |-> [response |-> legal_salary_filter(bot_response_content)]]

\* The except clause of ai_chat: JSONResponse(status_code=500, content={"error": ...})
ChatFailure(e) ==
    IF AiChatCatches(e.exc)
    THEN [status |-> 500, body |-> [error |-> GENERIC_ERROR]]
    ELSE TransportError

-----------------------------------------------------------------------------
(* The root page: serve_root_page. *)

\* No ./site/index.html.
ABSENT == [exists |-> FALSE, readable |-> FALSE, bytes |-> <<>>]

\* Bytes of the file: a plain character, CR and LF.
FileBytes == {"h", "\r", "\n"}

\* States of ./site/index.html: absent; there but not readable by the
\* process; there and readable, with any content of up to MaxFileLen bytes.
IndexFiles ==
    { ABSENT, [exists |-> TRUE, readable |-> FALSE, bytes |-> <<"h">>] }
    \cup { [exists |-> TRUE, readable |-> TRUE, bytes |-> b] :
             b \in UNION {[1..n -> FileBytes] : n \in 0..MaxFileLen} }

\* f.read() of a file opened with open(path, "r"): text mode with universal
\* newlines, where "\r\n" and a lone "\r" are both read as "\n".  (The
\* bytes of the model are ASCII, which decodes to itself.)
RECURSIVE ReadText(_)
ReadText(bytes) ==
    IF bytes = <<>> THEN <<>>
    ELSE IF Head(bytes) = "\r"
         THEN IF Len(bytes) >= 2 /\ bytes[2] = "\n"
              THEN <<"\n">> \o ReadText(SubSeq(bytes, 3, Len(bytes)))
              ELSE <<"\n">> \o ReadText(Tail(bytes))
         ELSE <<Head(bytes)>> \o ReadText(Tail(bytes))

\* open("./site/index.html", "r") and f.read(): the exception raised, or the text.
OpenAndRead(file) ==
    IF ~file.exists THEN [exc |-> "FileNotFoundError", data |-> <<>>]
    ELSE IF ~file.readable THEN [exc |-> "PermissionError", data |-> <<>>]
    ELSE [exc |-> "", data |-> ReadText(file.bytes)]

\* except FileNotFoundError
PageCatches(exc) == exc = "FileNotFoundError"

\* The response of serve_root_page for a state of the file.
PageResponse(file) ==
    LET got == OpenAndRead(file) IN
    IF got.exc = "" THEN [status |-> 200, body |-> [html |-> got.data]]
    ELSE IF PageCatches(got.exc)
         THEN [status |-> 404, body |-> [html |-> NOT_FOUND_HTML]]
         ELSE TransportError

-----------------------------------------------------------------------------
(* The event loop.  ai_chat and serve_root_page are coroutines of one      *)
(* event loop (uvicorn.run with one worker), and neither awaits: the call  *)
(* ollama.chat is the synchronous client's, so while a request waits for   *)
(* the backend the loop runs no other handler.                             *)

LoopFree == \A r \in Reqs : pc[r] # "BackendCalled"

Terminal == {"Responded", "Failed"}

-----------------------------------------------------------------------------
(* Process start. *)

\* ollama.pull(OLLAMA_MODEL) returns: the module body runs to its end.
PullOk ==
    /\ phase = "import"
    /\ pulls' = pulls + 1
    /\ pullResult' = "ok"
    /\ phase' = "main"
    /\ UNCHANGED <<OLLAMA_MODEL, pc, request, sent, calls, outcome, resp,
                   indexFile, pageResp, filterVars>>

\* Mutant: the pull is wrapped in try/except and its failure is ignored.
PullFailsIgnored ==
    /\ phase = "import"
    /\ pulls' = pulls + 1
    /\ pullResult' = "failed"
    /\ phase' = "main"
    /\ UNCHANGED <<OLLAMA_MODEL, pc, request, sent, calls, outcome, resp,
                   indexFile, pageResp, filterVars>>

\* ollama.pull(OLLAMA_MODEL) raises at module level: the interpreter exits.
PullFails ==
    /\ phase = "import"
    /\ pulls' = pulls + 1
    /\ pullResult' = "failed"
    /\ phase' = "exited"
    /\ UNCHANGED <<OLLAMA_MODEL, pc, request, sent, calls, outcome, resp,
                   indexFile, pageResp, filterVars>>

\* uvicorn.run(app, host="0.0.0.0", port=8000)
RunServer ==
    /\ phase = "main"
    /\ phase' = "serving"
    /\ UNCHANGED <<OLLAMA_MODEL, pulls, pullResult, pc, request, sent, calls,
                   outcome, resp, indexFile, pageResp, filterVars>>

-----------------------------------------------------------------------------
(* POST /api/chat: ai_chat. *)

\* A chat request reaches the server; its body is request.messages = history.
Receive(r, history) ==
    /\ phase = "serving"
    /\ pc[r] = "idle"
    /\ pc' = [pc EXCEPT ![r] = "Received"]
    /\ request' = [request EXCEPT ![r] = history]
    /\ UNCHANGED <<phase, OLLAMA_MODEL, pulls, pullResult, sent, calls, outcome,
                   resp, indexFile, pageResp, filterVars>>

\* The handler runs up to its call of ollama.chat(model=, messages=, options=).
CallBackend(r) ==
    /\ phase = "serving"
    /\ pc[r] = "Received"
    /\ LoopFree
    /\ sent' = [sent EXCEPT ![r] = << [model |-> OLLAMA_MODEL,
                                       messages |-> Compose(request[r]),
                                       options |-> OPTIONS] >>]
    /\ calls' = [calls EXCEPT ![r] = calls[r] + 1]
    /\ pc' = [pc EXCEPT ![r] = "BackendCalled"]
    /\ UNCHANGED <<phase, OLLAMA_MODEL, pulls, pullResult, request, outcome,
                   resp, indexFile, pageResp, filterVars>>

\* The handler's locals are gone once it has returned its response.
Finish(r, state, how, response) ==
    /\ pc' = [pc EXCEPT ![r] = state]
    /\ outcome' = [outcome EXCEPT ![r] = how]
    /\ resp' = [resp EXCEPT ![r] = <<response>>]
    /\ request' = [request EXCEPT ![r] = <<>>]
    /\ sent' = [sent EXCEPT ![r] = <<>>]
    /\ UNCHANGED <<phase, OLLAMA_MODEL, pulls, pullResult, calls, indexFile,
                   pageResp, filterVars>>

\* ollama.chat returns a response whose message.content is the text reply.
ChatReplies(r, reply) ==
    /\ pc[r] = "BackendCalled"
    /\ Finish(r, "Responded",
              [kind |-> "reply", content |-> reply, exc |-> "", error |-> <<>>],
              ChatSuccess(reply))

\* Mutant: the call is made again when it raises (up to three calls).
ChatRaisesRetry(r, e) ==
    /\ pc[r] = "BackendCalled"
    /\ IF calls[r] < 3
       THEN /\ calls' = [calls EXCEPT ![r] = calls[r] + 1]
            /\ UNCHANGED <<phase, OLLAMA_MODEL, pulls, pullResult, pc, request,
                           sent, outcome, resp, indexFile, pageResp, filterVars>>
       ELSE Finish(r, "Failed",
                   [kind |-> "raised", content |-> <<>>, exc |-> e.exc, error |-> e.error],
                   ChatFailure(e))

\* ollama.chat raises e.
ChatRaises(r, e) ==
    /\ pc[r] = "BackendCalled"
    /\ Finish(r, "Failed",
              [kind |-> "raised", content |-> <<>>, exc |-> e.exc, error |-> e.error],
              ChatFailure(e))

\* ollama.chat returns a response without message.content: the subscript raises.
ChatMalformed(r) ==
    /\ pc[r] = "BackendCalled"
    /\ Finish(r, "Failed",
              [kind |-> "malformed", content |-> <<>>, exc |-> MALFORMED.exc,
               error |-> MALFORMED.error],
              ChatFailure(MALFORMED))

\* The response has been sent and the connection is done with.
Close(r) ==
    /\ pc[r] \in Terminal
    /\ LoopFree
    /\ pc' = [pc EXCEPT ![r] = "idle"]
    /\ outcome' = [outcome EXCEPT ![r] = NoOutcome]
    /\ resp' = [resp EXCEPT ![r] = <<>>]
    /\ calls' = [calls EXCEPT ![r] = 0]
    /\ UNCHANGED <<phase, OLLAMA_MODEL, pulls, pullResult, request, sent,
                   indexFile, pageResp, filterVars>>

-----------------------------------------------------------------------------
(* GET /: serve_root_page, one step of the event loop. *)

ServeRootPage ==
    /\ phase = "serving"
    /\ LoopFree
    /\ pageResp' = <<PageResponse(indexFile)>>
    /\ UNCHANGED <<phase, OLLAMA_MODEL, pulls, pullResult, pc, request, sent,
                   calls, outcome, resp, indexFile, filterVars>>

-----------------------------------------------------------------------------
(* Specifications. *)

\* The process as the interpreter starts on main.py: the environment has
\* been read, nothing is pulled, no request exists.
InitServer ==
    /\ phase = "import"
    /\ OLLAMA_MODEL \in ModelIds
    /\ pulls = 0
    /\ pullResult = "none"
    /\ pc = [r \in Reqs |-> "idle"]
    /\ request = [r \in Reqs |-> <<>>]
    /\ sent = [r \in Reqs |-> <<>>]
    /\ calls = [r \in Reqs |-> 0]
    /\ outcome = [r \in Reqs |-> NoOutcome]
    /\ resp = [r \in Reqs |-> <<>>]
    /\ pageResp = <<>>

\* The chat endpoint's specification: no index.html (the page has its own
\* specification, SpecPage, where the file varies).
Init ==
    /\ InitServer
    /\ indexFile = ABSENT
    /\ text = <<>>
    /\ fstage = "input"
    /\ filtered = <<>>
    /\ refiltered = <<>>

Next ==
    \/ PullOk
    \/ PullFails
    \/ RunServer
    \/ \E r \in Reqs, history \in Histories : Receive(r, history)
    \/ \E r \in Reqs : CallBackend(r)
    \/ \E r \in Reqs, reply \in Replies : ChatReplies(r, reply)
    \/ \E r \in Reqs, e \in BackendErrors : ChatRaises(r, e)
    \/ \E r \in Reqs : ChatMalformed(r)
    \/ \E r \in Reqs : Close(r)
    \/ ServeRootPage

Spec == Init /\ [][Next]_vars

\* The lifecycle runs: its steps read neither the choice of model nor the
\* texts, which are drawn here from smaller sets.
InitFair ==
    /\ Init
    /\ OLLAMA_MODEL = DEFAULT_MODEL

FairHistories == {h \in Histories : Len(h) <= 1}

FairReplies == {REPLY_LEGAL}

FairErrors == {e \in BackendErrors : e.exc = "ConnectionError"}

NextFair ==
    \/ PullOk
    \/ PullFails
    \/ RunServer
    \/ \E r \in Reqs, history \in FairHistories : Receive(r, history)
    \/ \E r \in Reqs : CallBackend(r)
    \/ \E r \in Reqs, reply \in FairReplies : ChatReplies(r, reply)
    \/ \E r \in Reqs, e \in FairErrors : ChatRaises(r, e)
    \/ \E r \in Reqs : ChatMalformed(r)
    \/ \E r \in Reqs : Close(r)
    \/ ServeRootPage

\* The backend call of request r ends, one way or another.
BackendAnswers(r) ==
    \/ \E reply \in FairReplies : ChatReplies(r, reply)
    \/ \E e \in FairErrors : ChatRaises(r, e)
    \/ ChatMalformed(r)

\* The event loop runs its ready handlers in turn (strong fairness: a
\* handler waiting for the loop is not passed over for ever), and the
\* backend call of a request returns or raises.
FairSpec ==
    /\ InitFair
    /\ [][NextFair]_vars
    /\ \A r \in Reqs : SF_vars(CallBackend(r))
    /\ \A r \in Reqs : WF_vars(BackendAnswers(r))

\* The filter on its own: the server never starts, the texts vary.
InitFilter ==
    /\ text \in Texts
    /\ fstage = "input"
    /\ filtered = <<>>
    /\ refiltered = <<>>
    /\ phase = "import"
    /\ OLLAMA_MODEL = DEFAULT_MODEL
    /\ pulls = 0
    /\ pullResult = "none"
    /\ pc = [r \in Reqs |-> "idle"]
    /\ request = [r \in Reqs |-> <<>>]
    /\ sent = [r \in Reqs |-> <<>>]
    /\ calls = [r \in Reqs |-> 0]
    /\ outcome = [r \in Reqs |-> NoOutcome]
    /\ resp = [r \in Reqs |-> <<>>]
    /\ indexFile = ABSENT
    /\ pageResp = <<>>

NextFilter ==
    \/ ApplyFilter
    \/ ApplyFilterAgain

SpecFilter == InitFilter /\ [][NextFilter]_vars

\* The root page on its own: the process starts and serves GET /, for
\* every state of index.html.
InitPage ==
    /\ InitServer
    /\ OLLAMA_MODEL = DEFAULT_MODEL
    /\ indexFile \in IndexFiles
    /\ text = <<>>
    /\ fstage = "input"
    /\ filtered = <<>>
    /\ refiltered = <<>>

NextPage ==
    \/ PullOk
    \/ PullFails
    \/ RunServer
    \/ ServeRootPage

SpecPage == InitPage /\ [][NextPage]_vars

-----------------------------------------------------------------------------
(* Properties of POST /api/chat, checked under Spec. *)

\* C1: whenever the backend call of a chat request succeeds with reply text
\* R, the request ends Responded with status 200 and body exactly
\* {response: redact(R)}, redact being the replacement of every occurrence
\* of "$10,000,000" by "REDACTED"; no success body contains "$10,000,000",
\* and R itself is not what is returned when R contains it.
C1_SuccessIsFilteredReply ==
    \A r \in Reqs :
        /\ outcome[r].kind = "reply" => pc[r] = "Responded"
        /\ pc[r] = "Responded" =>
              /\ outcome[r].kind = "reply"
              /\ resp[r] = << [status |-> 200,
                               body |-> [response |->
                                   Replace(outcome[r].content, SENSITIVE, PLACEHOLDER)]] >>
              /\ ~Contains(resp[r][1].body.response, SENSITIVE)
              /\ Contains(outcome[r].content, SENSITIVE)
                    => resp[r][1].body.response # outcome[r].content

\* A request whose reply held the figure twice has been answered while
\* another request was answered too.
C1_Witness ==
    \E r, s \in Reqs :
        /\ r # s
        /\ pc[r] = "Responded" /\ pc[s] = "Responded"
        /\ Cardinality(Occ(outcome[r].content, SENSITIVE)) = 2
        /\ resp[r][1].status = 200

\* C2: every per-request error of the chat endpoint (ollama.chat raising,
\* or a response without message.content) ends the request Failed with
\* status 500 and body exactly {error: "Failed to get a response from the
\* AI model."}; the body holds no text of the backend's error and the
\* response is the handler's, not the transport's answer to an exception
\* that escaped.
C2_ErrorsCaught ==
    \A r \in Reqs :
        /\ outcome[r].kind \in {"raised", "malformed"} => pc[r] = "Failed"
        /\ pc[r] = "Failed" =>
              /\ outcome[r].kind \in {"raised", "malformed"}
              /\ resp[r] = << [status |-> 500, body |-> [error |-> GENERIC_ERROR]] >>
              /\ resp[r][1] # TransportError
              /\ ~Contains(resp[r][1].body.error, outcome[r].error)

\* One request failed on an exception of ollama.chat that is not the
\* backend's own error class, another on a malformed response.
C2_Witness ==
    \E r, s \in Reqs :
        /\ pc[r] = "Failed" /\ outcome[r].kind = "raised"
        /\ outcome[r].exc = "ConnectionError"
        /\ pc[s] = "Failed" /\ outcome[s].kind = "malformed"

\* C3: the conversation sent to the backend for a client history H has
\* length Len(H) + 1, its first element is the system turn with content
\* SYSTEM_PROMPT, and its other elements are H's in order, system turns of
\* the client included.
C3_PrependInvariant ==
    \A r \in Reqs :
        pc[r] = "BackendCalled" =>
            /\ Len(sent[r]) = 1
            /\ LET m == sent[r][1].messages
                   H == request[r]
               IN  /\ Len(m) = Len(H) + 1
                   /\ m[1] = [role |-> "system", content |-> SYSTEM_PROMPT]
                   /\ \A i \in 1..Len(H) : m[i + 1] = H[i]

\* A history that opens with a client system turn equal to the server's own
\* and goes on with a user turn is at the backend.
C3_Witness ==
    \E r \in Reqs :
        /\ pc[r] = "BackendCalled"
        /\ Len(request[r]) = 2
        /\ request[r][1] = SystemTurn
        /\ request[r][2].role = "user"
        /\ Len(sent[r][1].messages) = 3

\* The response ai_chat gives for a backend outcome, written from the
\* endpoint's contract: the redacted reply, or the generic error.
ContractResponse(how) ==
    IF how.kind = "reply"
    THEN [status |-> 200,
          body |-> [response |-> Replace(how.content, SENSITIVE, PLACEHOLDER)]]
    ELSE [status |-> 500, body |-> [error |-> GENERIC_ERROR]]

\* The fields of request r.
Fields(r) == <<pc[r], request[r], sent[r], calls[r], outcome[r], resp[r]>>

\* C9: chat requests are independent.  What is sent to the backend for a
\* request is made of that request's own messages and of the process-wide
\* system prompt, model identifier and temperature 0.2; its response is a
\* function of its own backend outcome; a step of one request changes no
\* field of another; and no step changes the model identifier.
C9_RequestsIndependent ==
    /\ [](\A r \in Reqs :
            /\ pc[r] = "BackendCalled" =>
                  sent[r] = << [model |-> OLLAMA_MODEL,
                                messages |-> <<SystemTurn>> \o request[r],
                                options |-> [temperature |-> "0.2"]] >>
            /\ pc[r] \in Terminal => resp[r] = <<ContractResponse(outcome[r])>>)
    /\ [][/\ OLLAMA_MODEL' = OLLAMA_MODEL
          /\ \A r, s \in Reqs :
                (r # s /\ Fields(r)' # Fields(r)) => Fields(s)' = Fields(s)]_vars

\* One request has failed and still holds its response while another, with
\* a history of its own, is at its backend call.
C9_Witness ==
    \E r, s \in Reqs :
        /\ r # s
        /\ pc[r] = "Failed"
        /\ pc[s] = "BackendCalled"
        /\ request[s] # <<>>

\* No chat request and no page request has been handled.
NothingHandled ==
    /\ \A r \in Reqs : pc[r] = "idle" /\ resp[r] = <<>> /\ calls[r] = 0
    /\ pageResp = <<>>

\* C10: ollama.pull runs once, while the module is imported and before any
\* request is handled; a process whose pull failed never serves a request;
\* and no request pulls again.
C10_PullOnceBeforeServing ==
    /\ pulls <= 1
    /\ phase = "import" => pulls = 0 /\ pullResult = "none" /\ NothingHandled
    /\ phase = "main" => pulls = 1 /\ pullResult = "ok" /\ NothingHandled
    /\ phase = "serving" => pulls = 1 /\ pullResult = "ok"
    /\ phase = "exited" => pulls = 1 /\ pullResult = "failed" /\ NothingHandled
    /\ ~NothingHandled => phase = "serving"

\* The server has answered a chat request and a page request after one pull.
C10_Witness ==
    /\ phase = "serving"
    /\ pulls = 1
    /\ pageResp # <<>>
    /\ \E r \in Reqs : pc[r] \in Terminal

-----------------------------------------------------------------------------
(* The request lifecycle, checked under FairSpec. *)

Transitions ==
    { <<"idle", "Received">>, <<"Received", "BackendCalled">>,
      <<"BackendCalled", "Responded">>, <<"BackendCalled", "Failed">>,
      <<"Responded", "idle">>, <<"Failed", "idle">> }

\* C8: a chat request goes Received -> BackendCalled -> Responded or
\* Failed.  The backend is called once per request, at that first step, and
\* never again; there is no response before the call has ended; a Responded
\* request holds the filtered reply and a Failed one no reply at all; a
\* response, once given, is the request's only one; and, the backend call
\* returning or raising, every received request reaches Responded or Failed.
C8_Lifecycle ==
    /\ [](\A r \in Reqs :
            /\ pc[r] \in {"idle", "Received"} =>
                  calls[r] = 0 /\ resp[r] = <<>> /\ outcome[r] = NoOutcome
            /\ pc[r] = "BackendCalled" =>
                  calls[r] = 1 /\ resp[r] = <<>> /\ outcome[r] = NoOutcome
            /\ pc[r] = "Responded" =>
                  /\ calls[r] = 1 /\ Len(resp[r]) = 1 /\ outcome[r].kind = "reply"
                  /\ DOMAIN resp[r][1].body = {"response"}
            /\ pc[r] = "Failed" =>
                  /\ calls[r] = 1 /\ Len(resp[r]) = 1 /\ outcome[r].kind # "reply"
                  /\ "response" \notin DOMAIN resp[r][1].body)
    /\ [][\A r \in Reqs :
            /\ pc'[r] # pc[r] => <<pc[r], pc'[r]>> \in Transitions
            /\ calls'[r] = calls[r] + 1 <=> (pc[r] = "Received" /\ pc'[r] = "BackendCalled")
            /\ (pc[r] \in Terminal /\ pc'[r] = pc[r]) => resp'[r] = resp[r]]_vars
    /\ \A r \in Reqs : (pc[r] = "Received") ~> (pc[r] \in Terminal)

\* One request has ended Responded and another Failed, each after one call.
C8_Witness ==
    \E r, s \in Reqs :
        /\ pc[r] = "Responded" /\ calls[r] = 1
        /\ pc[s] = "Failed" /\ calls[s] = 1

-----------------------------------------------------------------------------
(* GET /, checked under SpecPage. *)

\* C7: GET / answers 200 with exactly the content of ./site/index.html when
\* the file is present (read here as: there and readable) and 404 with a
\* non-empty fallback body when it is absent, and the process keeps serving.
C7_RootPageExact ==
    pageResp # <<>> =>
        /\ phase = "serving"
        /\ (indexFile.exists /\ indexFile.readable) =>
              pageResp[1] = [status |-> 200, body |-> [html |-> indexFile.bytes]]
        /\ ~indexFile.exists =>
              /\ pageResp[1].status = 404
              /\ pageResp[1].body.html # <<>>

-----------------------------------------------------------------------------
(* Properties of legal_salary_filter, checked under SpecFilter. *)

\* C4: the filtered text holds no occurrence of "$10,000,000"; the
\* occurrences in the input are disjoint spans; each span is replaced by
\* exactly "REDACTED"; and every character outside the spans is in the
\* result, unchanged and in order.
C4_RedactionExact ==
    fstage # "input" =>
        LET occ == Occ(text, SENSITIVE)
            n == Len(SENSITIVE)
            d == Len(SENSITIVE) - Len(PLACEHOLDER)
            Before(i) == Cardinality({j \in occ : j + n - 1 < i})
            Inside(i) == \E j \in occ : j <= i /\ i < j + n
        IN  /\ Occ(filtered, SENSITIVE) = {}
            /\ \A i, j \in occ : i < j => j - i >= n
            /\ Len(filtered) = Len(text) - Cardinality(occ) * d
            /\ \A i \in 1..Len(text) :
                  ~Inside(i) => filtered[i - Before(i) * d] = text[i]
            /\ \A j \in occ :
                  SubSeq(filtered, j - Before(j) * d,
                         j - Before(j) * d + Len(PLACEHOLDER) - 1) = PLACEHOLDER

\* "$10,000$10,000,000,000" has been filtered to "$10,000REDACTED,000": the
\* halves of the figure meet the placeholder on both sides.
C4_Witness ==
    /\ fstage = "filtered"
    /\ text = <<"$","1","0",",","0","0","0">> \o SENSITIVE \o <<",","0","0","0">>
    /\ filtered = <<"$","1","0",",","0","0","0">> \o PLACEHOLDER \o <<",","0","0","0">>

\* The spec's examples of near-miss variants.
NearMisses == {TEN_MILLION_WORDS, FIGURE_WITH_CENTS}

\* C5 as stated: a near-miss variant of the figure in the text ("10 million
\* dollars", "$10,000,000.00") is in the filtered text as often as it was in
\* the text.
C5_NearMissUnchanged ==
    fstage # "input" =>
        \A v \in NearMisses :
            Cardinality(Occ(filtered, v)) = Cardinality(Occ(text, v))

\* C5 amended: a text without the literal "$10,000,000" is returned as it
\* is, and "10 million dollars" is in the filtered text as often as in the
\* text; "$10,000,000.00" holds the literal and comes out as "REDACTED.00".
C5_NoLiteralUnchanged ==
    fstage # "input" =>
        /\ ~Contains(text, SENSITIVE) => filtered = text
        /\ Cardinality(Occ(filtered, TEN_MILLION_WORDS))
              = Cardinality(Occ(text, TEN_MILLION_WORDS))
        /\ ~Contains(filtered, FIGURE_WITH_CENTS)
        /\ Cardinality(Occ(filtered, PLACEHOLDER \o <<".","0","0">>))
              >= Cardinality(Occ(text, FIGURE_WITH_CENTS))

\* A text with "10 million dollars" and "$10000000" and without the literal
\* has been filtered.
C5_Witness ==
    /\ fstage = "filtered"
    /\ Contains(text, TEN_MILLION_WORDS)
    /\ Contains(text, <<"$","1","0","0","0","0","0","0","0">>)
    /\ ~Contains(text, SENSITIVE)
    /\ filtered = text

\* C6: filtering a filtered text changes nothing.
C6_Idempotent ==
    fstage = "refiltered" => refiltered = filtered

\* A text with two occurrences of the figure and the placeholder itself has
\* been filtered twice.
C6_Witness ==
    /\ fstage = "refiltered"
    /\ Cardinality(Occ(text, SENSITIVE)) = 2
    /\ Contains(text, PLACEHOLDER)
    /\ filtered # text

=============================================================================
